---- MODULE Spec2Model ----
(***************************************************************************)
(* State-machine model of the three scripts of add_to_channel:             *)
(*   add_patients_to_channel.py  (script "add")                            *)
(*   safe_dm_invite.py           (script "dm")                             *)
(*   invite_users_to_channel.py  (script "inv")                            *)
(* Each script is one sequential coroutine; its position is pc, its local  *)
(* variables are the fields of loc (named as in the source).  The input    *)
(* CSV and the output CSV are files that outlive a run, so a behaviour is  *)
(* a sequence of runs of one script on the same files.  Strings that the   *)
(* code inspects character by character (phones, ids) are tuples of        *)
(* one-character strings.  every remote call answers nondeterministically  *)
(* with a value or with one of the exceptions of the client library.       *)
(* trace is a history variable: the remote calls, sleeps and log writes of *)
(* the current run, in program order.                                      *)
(***************************************************************************)
EXTENDS Integers, Sequences, FiniteSets, TLC

\* ---------------------------------------------------------------- bounds
MaxItems == 2        \* rows in the input CSV
MaxRuns  == 2        \* successive invocations on the same files
MaxResumeItems == 1  \* rows in the input CSV when "inv" is run repeatedly
MaxCsvRows == 3      \* data lines of the patient export given to read_patient_csv

\* ------------------------------------------------------ program constants
CEILING     == 600   \* add_patients_to_channel.py:367  "if wait > 600"
MIN_DELAY   == 15    \* add_patients_to_channel.py:48
MAX_DELAY   == 45    \* add_patients_to_channel.py:49
DM_MIN_DELAY == 60   \* safe_dm_invite.py:41
DM_MAX_DELAY == 300  \* safe_dm_invite.py:42
ADD_DAILY_LIMIT == 9999  \* add_patients_to_channel.py:46
DM_DAILY_LIMIT  == 35    \* safe_dm_invite.py:40
BATCH_SIZE_DEFAULT == 10 \* invite_users_to_channel.py:39
BATCH_DELAY_DEFAULT == 5 \* invite_users_to_channel.py:40

\* ------------------------------------------------------------- sequences
RECURSIVE SelectChars(_, _)
SelectChars(s, keep) ==
  IF s = <<>> THEN <<>>
  ELSE IF Head(s) \in keep THEN <<Head(s)>> \o SelectChars(Tail(s), keep)
       ELSE SelectChars(Tail(s), keep)

RECURSIVE DropChars(_, _)
DropChars(s, drop) ==
  IF s = <<>> THEN <<>>
  ELSE IF Head(s) \in drop THEN DropChars(Tail(s), drop)
       ELSE <<Head(s)>> \o DropChars(Tail(s), drop)

Whitespace == {" ", "\t"}
Digits == {"0", "1", "2", "3", "4", "5", "6", "7", "8", "9"}

RECURSIVE LStrip(_)
LStrip(s) == IF s # <<>> /\ Head(s) \in Whitespace THEN LStrip(Tail(s)) ELSE s

RECURSIVE RStrip(_)
RStrip(s) ==
  IF s # <<>> /\ s[Len(s)] \in Whitespace THEN RStrip(SubSeq(s, 1, Len(s) - 1))
  ELSE s

\* str.strip()
Strip(s) == RStrip(LStrip(s))

\* str.startswith(p)
StartsWith(s, p) == Len(s) >= Len(p) /\ SubSeq(s, 1, Len(p)) = p

\* normalize_phone: Ethiopian numbers to +251..., '' for anything else
normalize_phone(raw) ==
  LET phone  == DropChars(Strip(raw), {" ", "-"})
      digits == IF StartsWith(phone, <<"+">>)
                  THEN <<"+">> \o SelectChars(Tail(phone), Digits)
                  ELSE SelectChars(phone, Digits)
  IN  IF phone = <<>> \/ Len(phone) < 8 THEN <<>>
      ELSE IF StartsWith(digits, <<"0", "9">>) /\ Len(digits) = 10
        THEN <<"+", "2", "5", "1">> \o Tail(digits)
      ELSE IF StartsWith(digits, <<"+", "2", "5", "1">>) /\ Len(digits) = 13
        THEN digits
      ELSE IF StartsWith(digits, <<"2", "5", "1">>) /\ Len(digits) = 12
        THEN <<"+">> \o digits
      ELSE <<>>

\* ------------------------------------------------------------ input rows
\* Rows of the patient export (Card No., Name, C-Phone).
PatientRows ==
  { [card_no |-> "c1", name |-> "A",
     phone |-> <<"0", "9", "1", "1", "1", "1", "1", "1", "1", "1">>],
    [card_no |-> "c2", name |-> "B",
     phone |-> <<"+", "2", "5", "1", "9", "1", "1", "1", "1", "1", "1", "1", "1">>],
    [card_no |-> "c3", name |-> "C",
     phone |-> <<" ", "2", "5", "1", "9", "2", "2", "-", "2", "2", "2", "2", "2", "2">>] }

\* the value of a column that a short data line does not have
None == <<"None">>

\* Data lines of any patient export: the rows above, a row whose phone is
\* not an Ethiopian number, and a line that ends before the C-Phone column.
CsvRows ==
  PatientRows \cup
    { [card_no |-> "c4", name |-> "D", phone |-> <<"1", "2", "3", "4", "5">>],
      [card_no |-> "c5", name |-> "E", phone |-> None] }

\* Rows of telegram_users.csv (user_id, username).
UserRows ==
  { [user_id |-> <<"1">>, username |-> "u1"],
    [user_id |-> <<"1">>, username |-> ""],
    [user_id |-> <<"2">>, username |-> ""],
    [user_id |-> <<>>,    username |-> "u3"] }

\* Data lines of any telegram_users.csv: the rows above and a line whose
\* user_id is blank and whose username is empty.
UserCsvRows == UserRows \cup { [user_id |-> <<" ">>, username |-> ""] }

SeqsUpTo(S, n) == UNION { [1..k -> S] : k \in 0..n }

\* ------------------------------------------------------------ exceptions
Exc(cls, seconds) == [cls |-> cls, seconds |-> seconds]
PeerFloodError == Exc("PeerFloodError", 0)
FloodWaitError(w) == Exc("FloodWaitError", w)
UserNotParticipantError == Exc("UserNotParticipantError", 0)
UserAlreadyParticipantError == Exc("UserAlreadyParticipantError", 0)
OtherError == Exc("RPCError", 0)

\* waits the server may ask for: at the ceiling and just above it
WaitSamples == {CEILING, CEILING + 1}

ClassifiedInviteErrors ==
  { Exc("UserPrivacyRestrictedError", 0), Exc("UserNotMutualContactError", 0),
    Exc("UserChannelsTooMuchError", 0), Exc("UserKickedError", 0),
    Exc("InputUserDeactivatedError", 0) }

InviteErrors ==
  ClassifiedInviteErrors
    \cup {UserAlreadyParticipantError, PeerFloodError, OtherError}
    \cup { FloodWaitError(w) : w \in WaitSamples }

ImportErrors == {PeerFloodError, OtherError}
CheckErrors == {UserNotParticipantError, OtherError}
SendErrors ==
  { Exc("UserPrivacyRestrictedError", 0), Exc("UserIsBlockedError", 0),
    PeerFloodError, OtherError } \cup { FloodWaitError(w) : w \in WaitSamples }
LookupErrors == {OtherError}

\* --------------------------------------------------------------- records
\* reason column: a stable code, or the first 50 characters of str(e)
Reason(code) == [code |-> code, cls |-> "", arg |-> <<>>]

\* str(n) for a natural number n: its decimal digits
DigitOf(d) ==
  CASE d = 0 -> "0" [] d = 1 -> "1" [] d = 2 -> "2" [] d = 3 -> "3" [] d = 4 -> "4"
    [] d = 5 -> "5" [] d = 6 -> "6" [] d = 7 -> "7" [] d = 8 -> "8" [] d = 9 -> "9"

RECURSIVE StrOfInt(_)
StrOfInt(n) ==
  IF n < 10 THEN <<DigitOf(n)>> ELSE Append(StrOfInt(n \div 10), DigitOf(n % 10))

ValueOf(c) == CHOOSE d \in 0..9 : DigitOf(d) = c

\* int(s) for a string of decimal digits
RECURSIVE IntOfStr(_)
IntOfStr(s) ==
  IF s = <<>> THEN 0 ELSE 10 * IntOfStr(SubSeq(s, 1, Len(s) - 1)) + ValueOf(s[Len(s)])

\* f'FloodWait_{wait}s'
FloodWaitReason(w) == [code |-> "FloodWait_s", cls |-> "", arg |-> StrOfInt(w)]
\* str(e)[:50]
StrPrefix(e) == [code |-> "str50", cls |-> e.cls, arg |-> StrOfInt(e.seconds)]

Record(key, status, reason) == [key |-> key, status |-> status, reason |-> reason]

\* header row written by csv.DictWriter.writeheader()
HeaderRow == [key |-> <<"k", "e", "y">>, status |-> "status", reason |-> Reason("reason")]

\* one entry of the history variable
Event(item, key, op, res, secs) ==
  [item |-> item, key |-> key, op |-> op, res |-> res, secs |-> secs]

VARIABLES
  script,      \* which of the three scripts this behaviour runs
  csv,         \* rows of the input CSV file
  daily_limit, \* DAILY_LIMIT of the script
  batch_size,  \* BATCH_SIZE (inv)
  out_exists,  \* os.path.exists(OUTPUT_FILE)
  out_rows,    \* lines of OUTPUT_FILE, header first
  run,         \* number of the current invocation
  dry_run,     \* --dry-run of the current invocation
  pc,          \* position of the coroutine
  loc,         \* local variables of main()
  trace,       \* history: calls, sleeps and writes of the current run
  start_len,   \* history: Len(out_rows) when the current run started
  env,         \* the settings of .env and whether the input CSV exists
  exit_code    \* <<>> while the process runs, then <<its exit status>>

vars == <<script, csv, daily_limit, batch_size, out_exists, out_rows, run,
          dry_run, pc, loc, trace, start_len, env, exit_code>>

config == <<script, csv, daily_limit, batch_size, env>>

\* ------------------------------------------------------------ file access
\* variant of get_processed that takes only the rows with status Success
get_processed_success_only(exists, rows) ==
  IF exists
    THEN { rows[k].key : k \in { j \in 2..Len(rows) : rows[j].status = "Success" } } \ {<<>>}
    ELSE {}

\* get_processed_phones / get_processed_users: the non-empty keys of the
\* data rows (csv.DictReader takes the first line as the header)
get_processed(exists, rows) ==
  IF exists THEN { rows[k].key : k \in 2..Len(rows) } \ {<<>>} ELSE {}

\* variant of write_result that opens the file for writing, not for appending
write_result_truncating(exists, rows, result) == <<HeaderRow, result>>

\* write_result: append one row, preceded by the header on a new file
write_result(exists, rows, result) ==
  IF exists THEN Append(rows, result) ELSE <<HeaderRow, result>>

RECURSIVE ReadPatientRows(_, _)
ReadPatientRows(rows, seen_phones) ==
  IF rows = <<>> THEN <<>>
  ELSE LET row        == Head(rows)
           phone      == Strip(row.phone)
           normalized == normalize_phone(phone)
       IN  IF phone = <<>> \/ normalized = <<>> \/ normalized \in seen_phones
             THEN ReadPatientRows(Tail(rows), seen_phones)
             ELSE <<[card_no |-> row.card_no, name |-> row.name, phone |-> normalized]>>
                    \o ReadPatientRows(Tail(rows), seen_phones \cup {normalized})

\* a data line with fewer fields than the header: csv.DictReader fills the
\* missing columns with None, and row.get('C-Phone', '').strip() raises
HasShortRow(rows) == \E r \in 1..Len(rows) : rows[r].phone = None

\* read_patient_csv: one patient per distinct normalized phone; raises when
\* the file does not exist and on a short row
read_patient_csv(exists, rows) ==
  IF ~exists \/ HasShortRow(rows)
    THEN [raised |-> TRUE, patients |-> <<>>]
    ELSE [raised |-> FALSE, patients |-> ReadPatientRows(rows, {})]

\* [p for p in patients if p['phone'] not in processed_phones]
RECURSIVE FilterRemaining(_, _)
FilterRemaining(patients, processed_phones) ==
  IF patients = <<>> THEN <<>>
  ELSE IF Head(patients).phone \in processed_phones
         THEN FilterRemaining(Tail(patients), processed_phones)
         ELSE <<Head(patients)>> \o FilterRemaining(Tail(patients), processed_phones)

\* ------------------------------------------------- add_patients_to_channel
AddLocals ==
  [ processed_phones |-> {}, remaining |-> <<>>,
    success_count |-> 0, fail_count |-> 0, not_on_telegram |-> 0,
    already_member |-> 0, count |-> 0, i |-> 0,
    status |-> "", reason |-> Reason(""), user |-> <<>>, wait |-> 0 ]

\* the patient of the current iteration
Patient == loc.remaining[loc.i]

AddEvent(op, res, secs) == Event(loc.i, Patient.phone, op, res, secs)

\* module level: sys.exit(1) unless TG_API_ID, TG_API_HASH and
\* TG_TARGET_CHANNEL are set
AddModule ==
  /\ script = "add" /\ pc = "module"
  /\ IF env.creds /\ env.target
       THEN pc' = "start" /\ exit_code' = exit_code
       ELSE pc' = "exited" /\ exit_code' = <<1>>
  /\ UNCHANGED <<config, out_exists, out_rows, run, dry_run, loc, trace, start_len>>

\* asyncio.run(main()) returns: the interpreter exits with status 0
AddExit ==
  /\ script = "add" /\ pc = "done"
  /\ pc' = "exited" /\ exit_code' = <<0>>
  /\ UNCHANGED <<config, out_exists, out_rows, run, dry_run, loc, trace, start_len>>

\* main(), up to the loop: authenticate, read, filter, connect
AddMain ==
  /\ script = "add" /\ pc = "start"
  /\ \E d \in BOOLEAN, authorized \in BOOLEAN, connected \in BOOLEAN :
       LET read      == read_patient_csv(env.csv_exists, csv)
           processed == get_processed(out_exists, out_rows)
           remaining == FilterRemaining(read.patients, processed)
       IN  /\ dry_run' = d
           /\ IF authorized /\ ~read.raised /\ remaining # <<>> /\ connected
                THEN /\ pc' = "loop"
                     /\ loc' = [AddLocals EXCEPT !.processed_phones = processed,
                                                 !.remaining = remaining, !.i = 1]
                ELSE /\ pc' = "done"
                     /\ loc' = loc
  /\ UNCHANGED <<config, exit_code, out_exists, out_rows, run, trace, start_len>>

\* variant of AddLoop that stops one item after the limit is reached
AddLoop_PastLimit ==
  /\ script = "add" /\ pc = "loop"
  /\ IF loc.i > Len(loc.remaining) \/ loc.count > daily_limit
       THEN /\ pc' = "summary"
            /\ UNCHANGED <<loc, out_exists, out_rows, trace>>
       ELSE IF dry_run
         THEN LET rec == Record(Patient.phone, "DryRun", Reason("Simulated"))
              IN  /\ out_rows' = write_result(out_exists, out_rows, rec)
                  /\ out_exists' = TRUE
                  /\ trace' = trace \o <<AddEvent("write_result", "DryRun", 0),
                                         AddEvent("sleep", "half", 0)>>
                  /\ loc' = [loc EXCEPT !.count = @ + 1, !.i = @ + 1]
                  /\ pc' = "loop"
         ELSE /\ loc' = [loc EXCEPT !.status = "Failed", !.reason = Reason("Unknown")]
              /\ pc' = "import"
              /\ UNCHANGED <<out_exists, out_rows, trace>>
  /\ UNCHANGED <<config, exit_code, run, dry_run, start_len>>

\* top of the for loop: end of list, daily limit, dry run
AddLoop ==
  /\ script = "add" /\ pc = "loop"
  /\ IF loc.i > Len(loc.remaining) \/ loc.count >= daily_limit
       THEN /\ pc' = "summary"
            /\ UNCHANGED <<loc, out_exists, out_rows, trace>>
       ELSE IF dry_run
         THEN LET rec == Record(Patient.phone, "DryRun", Reason("Simulated"))
              IN  /\ out_rows' = write_result(out_exists, out_rows, rec)
                  /\ out_exists' = TRUE
                  /\ trace' = trace \o <<AddEvent("write_result", "DryRun", 0),
                                         AddEvent("sleep", "half", 0)>>
                  /\ loc' = [loc EXCEPT !.count = @ + 1, !.i = @ + 1]
                  /\ pc' = "loop"
         ELSE /\ loc' = [loc EXCEPT !.status = "Failed", !.reason = Reason("Unknown")]
              /\ pc' = "import"
              /\ UNCHANGED <<out_exists, out_rows, trace>>
  /\ UNCHANGED <<config, exit_code, run, dry_run, start_len>>

\* Step A: resolve_phone_to_user; every exception of the import gives None
AddImport ==
  /\ script = "add" /\ pc = "import"
  /\ \/ \E found \in BOOLEAN :
          /\ trace' = Append(trace, AddEvent("ImportContactsRequest",
                                             IF found THEN "user" ELSE "empty", 0))
          /\ IF found
               THEN /\ loc' = [loc EXCEPT !.user = Patient.phone]
                    /\ pc' = "check"
               ELSE /\ loc' = [loc EXCEPT !.user = <<>>, !.status = "Failed",
                                          !.reason = Reason("NotOnTelegram"),
                                          !.not_on_telegram = @ + 1]
                    /\ pc' = "log"
     \/ \E e \in ImportErrors :
          /\ trace' = Append(trace, AddEvent("ImportContactsRequest", e.cls, e.seconds))
          /\ loc' = [loc EXCEPT !.user = <<>>, !.status = "Failed",
                                !.reason = Reason("NotOnTelegram"),
                                !.not_on_telegram = @ + 1]
          /\ pc' = "log"
  /\ UNCHANGED <<config, exit_code, out_exists, out_rows, run, dry_run, start_len>>

\* variant of AddCheck that counts a member against the daily limit
AddCheck_CountsMember ==
  /\ script = "add" /\ pc = "check"
  /\ \/ /\ trace' = Append(trace, AddEvent("GetParticipantRequest", "participant", 0))
        /\ loc' = [loc EXCEPT !.status = "Skipped", !.reason = Reason("AlreadyMember"),
                              !.already_member = @ + 1, !.count = @ + 1]
        /\ pc' = "log"
     \/ \E e \in CheckErrors :
          /\ trace' = Append(trace, AddEvent("GetParticipantRequest", e.cls, e.seconds))
          /\ pc' = IF e = UserNotParticipantError THEN "invite" ELSE "invite_anyway"
          /\ loc' = loc
  /\ UNCHANGED <<config, exit_code, out_exists, out_rows, run, dry_run, start_len>>

\* Step B: GetParticipantRequest
AddCheck ==
  /\ script = "add" /\ pc = "check"
  /\ \/ /\ trace' = Append(trace, AddEvent("GetParticipantRequest", "participant", 0))
        /\ loc' = [loc EXCEPT !.status = "Skipped", !.reason = Reason("AlreadyMember"),
                              !.already_member = @ + 1]
        /\ pc' = "log"
     \/ \E e \in CheckErrors :
          /\ trace' = Append(trace, AddEvent("GetParticipantRequest", e.cls, e.seconds))
          /\ pc' = IF e = UserNotParticipantError THEN "invite" ELSE "invite_anyway"
          /\ loc' = loc
  /\ UNCHANGED <<config, exit_code, out_exists, out_rows, run, dry_run, start_len>>

\* the handlers of the invite of Step C (lines 305-334)
InviteReason(e) ==
  CASE e.cls = "UserPrivacyRestrictedError" -> Reason("PrivacyRestricted")
    [] e.cls = "UserNotMutualContactError"  -> Reason("NotMutualContact")
    [] e.cls = "UserChannelsTooMuchError"   -> Reason("TooManyChannels")
    [] e.cls = "UserKickedError"            -> Reason("PreviouslyKicked")
    [] e.cls = "InputUserDeactivatedError"  -> Reason("Deactivated")

\* variant of Added that does not count the success against the daily limit
Added_NotCounted(l) ==
  [l EXCEPT !.status = "Success", !.reason = Reason("Added"),
            !.success_count = @ + 1]

Added(l) ==
  [l EXCEPT !.status = "Success", !.reason = Reason("Added"),
            !.success_count = @ + 1, !.count = @ + 1]

AlreadyMember(l) ==
  [l EXCEPT !.status = "Skipped", !.reason = Reason("AlreadyMember"),
            !.already_member = @ + 1]

\* Step C: InviteToChannelRequest after UserNotParticipantError
AddInvite ==
  /\ script = "add" /\ pc = "invite"
  /\ \/ /\ trace' = Append(trace, AddEvent("InviteToChannelRequest", "ok", 0))
        /\ loc' = Added(loc)
        /\ pc' = "log"
     \/ \E e \in InviteErrors :
          /\ trace' = Append(trace, AddEvent("InviteToChannelRequest", e.cls, e.seconds))
          /\ IF e \in ClassifiedInviteErrors
               THEN /\ loc' = [loc EXCEPT !.status = "Failed", !.reason = InviteReason(e),
                                          !.fail_count = @ + 1]
                    /\ pc' = "log"
             ELSE IF e = UserAlreadyParticipantError
               THEN /\ loc' = AlreadyMember(loc)
                    /\ pc' = "log"
             ELSE IF e = PeerFloodError
               THEN /\ loc' = loc
                    /\ pc' = "peer_flood"
             ELSE IF e.cls = "FloodWaitError"
               THEN /\ loc' = [loc EXCEPT !.wait = e.seconds]
                    /\ pc' = "flood_wait"
             ELSE /\ loc' = [loc EXCEPT !.status = "Failed", !.reason = StrPrefix(e),
                                        !.fail_count = @ + 1]
                  /\ pc' = "log"
  /\ UNCHANGED <<config, exit_code, out_exists, out_rows, run, dry_run, start_len>>

\* "Participant check failed, try to invite anyway" (lines 335-353)
AddInviteAnyway ==
  /\ script = "add" /\ pc = "invite_anyway"
  /\ \/ /\ trace' = Append(trace, AddEvent("InviteToChannelRequest", "ok", 0))
        /\ loc' = Added(loc)
        /\ pc' = "log"
     \/ \E e \in InviteErrors :
          /\ trace' = Append(trace, AddEvent("InviteToChannelRequest", e.cls, e.seconds))
          /\ IF e = UserAlreadyParticipantError
               THEN loc' = AlreadyMember(loc)
               ELSE loc' = [loc EXCEPT !.status = "Failed", !.reason = StrPrefix(e),
                                       !.fail_count = @ + 1]
          /\ pc' = "log"
  /\ UNCHANGED <<config, exit_code, out_exists, out_rows, run, dry_run, start_len>>

\* except PeerFloodError: log the item and break
AddPeerFlood ==
  /\ script = "add" /\ pc = "peer_flood"
  /\ out_rows' = write_result(out_exists, out_rows,
                              Record(Patient.phone, "Failed", Reason("PeerFlood")))
  /\ out_exists' = TRUE
  /\ trace' = Append(trace, AddEvent("write_result", "Failed", 0))
  /\ pc' = "summary"
  /\ UNCHANGED <<config, exit_code, run, dry_run, loc, start_len>>

\* variant of AddFloodWait that tries the same item again after the sleep
AddFloodWait_Retry ==
  /\ script = "add" /\ pc = "flood_wait"
  /\ IF loc.wait > CEILING
       THEN /\ out_rows' = write_result(out_exists, out_rows,
                             Record(Patient.phone, "Failed", FloodWaitReason(loc.wait)))
            /\ out_exists' = TRUE
            /\ trace' = Append(trace, AddEvent("write_result", "Failed", 0))
            /\ pc' = "summary"
            /\ loc' = loc
       ELSE /\ trace' = Append(trace, AddEvent("sleep", "flood_wait", loc.wait))
            /\ loc' = loc
            /\ pc' = "loop"
            /\ UNCHANGED <<out_exists, out_rows>>
  /\ UNCHANGED <<config, exit_code, run, dry_run, start_len>>

\* except FloodWaitError: above the ceiling log and break, else sleep and continue
AddFloodWait ==
  /\ script = "add" /\ pc = "flood_wait"
  /\ IF loc.wait > CEILING
       THEN /\ out_rows' = write_result(out_exists, out_rows,
                             Record(Patient.phone, "Failed", FloodWaitReason(loc.wait)))
            /\ out_exists' = TRUE
            /\ trace' = Append(trace, AddEvent("write_result", "Failed", 0))
            /\ pc' = "summary"
            /\ loc' = loc
       ELSE /\ trace' = Append(trace, AddEvent("sleep", "flood_wait", loc.wait))
            /\ loc' = [loc EXCEPT !.i = @ + 1]
            /\ pc' = "loop"
            /\ UNCHANGED <<out_exists, out_rows>>
  /\ UNCHANGED <<config, exit_code, run, dry_run, start_len>>

\* "Log result": write_result(status, reason)
AddLog ==
  /\ script = "add" /\ pc = "log"
  /\ out_rows' = write_result(out_exists, out_rows,
                              Record(Patient.phone, loc.status, loc.reason))
  /\ out_exists' = TRUE
  /\ trace' = Append(trace, AddEvent("write_result", loc.status, 0))
  /\ pc' = "delay"
  /\ UNCHANGED <<config, exit_code, run, dry_run, loc, start_len>>

\* random.randint(lo, hi), sampled at its two ends
DelaySamples(lo, hi) == {lo, hi}

\* variant of AddDelay that also sleeps after the last item
AddDelay_AfterLast ==
  /\ script = "add" /\ pc = "delay"
  /\ IF loc.count < daily_limit
       THEN \E delay \in DelaySamples(MIN_DELAY, MAX_DELAY) :
              trace' = Append(trace, AddEvent("sleep", "delay", delay))
       ELSE trace' = trace
  /\ pc' = "cleanup"
  /\ UNCHANGED <<config, exit_code, out_exists, out_rows, run, dry_run, loc, start_len>>

\* random delay between invites, skipped at the limit and after the last item
AddDelay ==
  /\ script = "add" /\ pc = "delay"
  /\ IF loc.count < daily_limit /\ loc.i < Len(loc.remaining)
       THEN \E delay \in DelaySamples(MIN_DELAY, MAX_DELAY) :
              trace' = Append(trace, AddEvent("sleep", "delay", delay))
       ELSE trace' = trace
  /\ pc' = "cleanup"
  /\ UNCHANGED <<config, exit_code, out_exists, out_rows, run, dry_run, loc, start_len>>

\* cleanup: DeleteContactsRequest for the imported user; whether it answers
\* or raises makes no difference to the run, so the history notes only the call
AddCleanup ==
  /\ script = "add" /\ pc = "cleanup"
  /\ IF loc.user # <<>>
       THEN trace' = Append(trace, AddEvent("DeleteContactsRequest", "ignored", 0))
       ELSE trace' = trace
  /\ loc' = [loc EXCEPT !.i = @ + 1]
  /\ pc' = "loop"
  /\ UNCHANGED <<config, exit_code, out_exists, out_rows, run, dry_run, start_len>>

\* summary and disconnect
AddSummary ==
  /\ script = "add" /\ pc = "summary"
  /\ pc' = "done"
  /\ UNCHANGED <<config, exit_code, out_exists, out_rows, run, dry_run, loc, trace, start_len>>

NextAdd ==
  \/ AddModule \/ AddExit \/ AddMain \/ AddLoop \/ AddImport \/ AddCheck \/ AddInvite \/ AddInviteAnyway
  \/ AddPeerFlood \/ AddFloodWait \/ AddLog \/ AddDelay \/ AddCleanup \/ AddSummary

\* --------------------------------------------------------- safe_dm_invite
DmLocals ==
  [ processed_ids |-> {}, users_to_contact |-> <<>>, count |-> 0, i |-> 0,
    status |-> "", reason |-> Reason(""), entity |-> <<>> ]

\* rows of the CSV with a user_id that is not in processed_ids
RECURSIVE UsersToContact(_, _)
UsersToContact(rows, processed_ids) ==
  IF rows = <<>> THEN <<>>
  ELSE IF Head(rows).user_id # <<>> /\ Head(rows).user_id \notin processed_ids
         THEN <<Head(rows)>> \o UsersToContact(Tail(rows), processed_ids)
         ELSE UsersToContact(Tail(rows), processed_ids)

DmUser == loc.users_to_contact[loc.i]

DmEvent(op, res, secs) == Event(loc.i, DmUser.user_id, op, res, secs)

LookupResults == {"ok"} \cup { e.cls : e \in LookupErrors }

\* module level: sys.exit(1) unless TG_API_ID and TG_API_HASH are set;
\* TG_TARGET_CHANNEL_LINK is not looked at
DmModule ==
  /\ script = "dm" /\ pc = "module"
  /\ IF env.creds
       THEN pc' = "start" /\ exit_code' = exit_code
       ELSE pc' = "exited" /\ exit_code' = <<1>>
  /\ UNCHANGED <<config, out_exists, out_rows, run, dry_run, loc, trace, start_len>>

\* asyncio.run(main()) returns: the interpreter exits with status 0
DmExit ==
  /\ script = "dm" /\ pc = "done"
  /\ pc' = "exited" /\ exit_code' = <<0>>
  /\ UNCHANGED <<config, out_exists, out_rows, run, dry_run, loc, trace, start_len>>

\* main(), up to the loop
DmMain ==
  /\ script = "dm" /\ pc = "start"
  /\ \E d \in BOOLEAN, authorized \in BOOLEAN :
       LET processed == get_processed(out_exists, out_rows)
           users     == UsersToContact(csv, processed)
       IN  /\ dry_run' = d
           /\ IF authorized /\ env.csv_exists /\ users # <<>>
                THEN /\ pc' = "loop"
                     /\ loc' = [DmLocals EXCEPT !.processed_ids = processed,
                                                !.users_to_contact = users, !.i = 1]
                ELSE /\ pc' = "done"
                     /\ loc' = loc
  /\ UNCHANGED <<config, exit_code, out_exists, out_rows, run, trace, start_len>>

\* variant of DmLoop that does not look at --dry-run
DmLoop_IgnoreDryRun ==
  /\ script = "dm" /\ pc = "loop"
  /\ IF loc.i > Len(loc.users_to_contact) \/ loc.count >= daily_limit
       THEN /\ pc' = "finish"
            /\ UNCHANGED <<loc, trace>>
       ELSE /\ loc' = [loc EXCEPT !.status = "Failed", !.reason = Reason("Unknown"),
                                  !.entity = <<>>]
            /\ pc' = "resolve"
            /\ trace' = trace
  /\ UNCHANGED <<config, exit_code, out_exists, out_rows, run, dry_run, start_len>>

\* top of the for loop: end of list, daily limit, dry run (which logs nothing)
DmLoop ==
  /\ script = "dm" /\ pc = "loop"
  /\ IF loc.i > Len(loc.users_to_contact) \/ loc.count >= daily_limit
       THEN /\ pc' = "finish"
            /\ UNCHANGED <<loc, trace>>
       ELSE IF dry_run
         THEN /\ trace' = Append(trace, DmEvent("sleep", "dry_run", 1))
              /\ loc' = [loc EXCEPT !.status = "DryRun", !.reason = Reason("Simulated"),
                                    !.count = @ + 1, !.i = @ + 1]
              /\ pc' = "loop"
         ELSE /\ loc' = [loc EXCEPT !.status = "Failed", !.reason = Reason("Unknown"),
                                    !.entity = <<>>]
              /\ pc' = "resolve"
              /\ trace' = trace
  /\ UNCHANGED <<config, exit_code, out_exists, out_rows, run, dry_run, start_len>>

\* "Resolve entity": by username, then by user_id; every exception is swallowed
DmResolve ==
  /\ script = "dm" /\ pc = "resolve"
  /\ \E r1 \in LookupResults, r2 \in LookupResults :
       LET by_name == DmUser.username # ""
           found1  == by_name /\ r1 = "ok"
           ev1     == IF by_name THEN <<DmEvent("get_entity(username)", r1, 0)>> ELSE <<>>
           ev2     == IF found1 THEN <<>> ELSE <<DmEvent("get_entity(user_id)", r2, 0)>>
           found   == found1 \/ r2 = "ok"
       IN  /\ trace' = trace \o ev1 \o ev2
           /\ IF found
                THEN /\ loc' = [loc EXCEPT !.entity = DmUser.user_id]
                     /\ pc' = "send"
                ELSE /\ loc' = [loc EXCEPT !.reason = Reason("UserNotFound")]
                     /\ pc' = "log"
  /\ UNCHANGED <<config, exit_code, out_exists, out_rows, run, dry_run, start_len>>

\* variant of DmSend whose last handler ends the run without a record
DmSend_OtherEndsRun ==
  /\ script = "dm" /\ pc = "send"
  /\ \/ /\ trace' = Append(trace, DmEvent("send_message", "ok", 0))
        /\ loc' = [loc EXCEPT !.status = "Success", !.reason = Reason("Sent"),
                              !.count = @ + 1]
        /\ pc' = "log"
     \/ \E e \in SendErrors :
          /\ trace' = Append(trace, DmEvent("send_message", e.cls, e.seconds))
          /\ IF e = PeerFloodError
               THEN /\ loc' = loc
                    /\ pc' = "peer_flood"
             ELSE IF e.cls = "UserPrivacyRestrictedError"
               THEN /\ loc' = [loc EXCEPT !.reason = Reason("PrivacyRestricted")]
                    /\ pc' = "log"
             ELSE IF e.cls = "UserIsBlockedError"
               THEN /\ loc' = [loc EXCEPT !.reason = Reason("Blocked")]
                    /\ pc' = "log"
             ELSE /\ loc' = loc
                  /\ pc' = "finish"
  /\ UNCHANGED <<config, exit_code, out_exists, out_rows, run, dry_run, start_len>>

\* client.send_message and the handlers of its exceptions
DmSend ==
  /\ script = "dm" /\ pc = "send"
  /\ \/ /\ trace' = Append(trace, DmEvent("send_message", "ok", 0))
        /\ loc' = [loc EXCEPT !.status = "Success", !.reason = Reason("Sent"),
                              !.count = @ + 1]
        /\ pc' = "log"
     \/ \E e \in SendErrors :
          /\ trace' = Append(trace, DmEvent("send_message", e.cls, e.seconds))
          /\ IF e = PeerFloodError
               THEN /\ loc' = loc
                    /\ pc' = "peer_flood"
             ELSE IF e.cls = "UserPrivacyRestrictedError"
               THEN /\ loc' = [loc EXCEPT !.reason = Reason("PrivacyRestricted")]
                    /\ pc' = "log"
             ELSE IF e.cls = "UserIsBlockedError"
               THEN /\ loc' = [loc EXCEPT !.reason = Reason("Blocked")]
                    /\ pc' = "log"
             ELSE IF e.cls = "FloodWaitError"
               THEN /\ loc' = loc
                    /\ pc' = "finish"
             ELSE /\ loc' = [loc EXCEPT !.reason = StrPrefix(e)]
                  /\ pc' = "log"
  /\ UNCHANGED <<config, exit_code, out_exists, out_rows, run, dry_run, start_len>>

\* variant of DmPeerFlood that logs the item and goes on with the loop
DmPeerFlood_Continue ==
  /\ script = "dm" /\ pc = "peer_flood"
  /\ out_rows' = write_result(out_exists, out_rows,
                              Record(DmUser.user_id, "Failed", Reason("PeerFlood")))
  /\ out_exists' = TRUE
  /\ trace' = Append(trace, DmEvent("write_result", "Failed", 0))
  /\ pc' = "delay"
  /\ UNCHANGED <<config, exit_code, run, dry_run, loc, start_len>>

\* except PeerFloodError: log the item and break
DmPeerFlood ==
  /\ script = "dm" /\ pc = "peer_flood"
  /\ out_rows' = write_result(out_exists, out_rows,
                              Record(DmUser.user_id, "Failed", Reason("PeerFlood")))
  /\ out_exists' = TRUE
  /\ trace' = Append(trace, DmEvent("write_result", "Failed", 0))
  /\ pc' = "finish"
  /\ UNCHANGED <<config, exit_code, run, dry_run, loc, start_len>>

\* "Log result"
DmLog ==
  /\ script = "dm" /\ pc = "log"
  /\ out_rows' = write_result(out_exists, out_rows,
                              Record(DmUser.user_id, loc.status, loc.reason))
  /\ out_exists' = TRUE
  /\ trace' = Append(trace, DmEvent("write_result", loc.status, 0))
  /\ pc' = "delay"
  /\ UNCHANGED <<config, exit_code, run, dry_run, loc, start_len>>

\* pacing sleep while under the limit
DmDelay ==
  /\ script = "dm" /\ pc = "delay"
  /\ IF loc.count < daily_limit
       THEN \E delay \in DelaySamples(DM_MIN_DELAY, DM_MAX_DELAY) :
              trace' = Append(trace, DmEvent("sleep", "delay", delay))
       ELSE trace' = trace
  /\ loc' = [loc EXCEPT !.i = @ + 1]
  /\ pc' = "loop"
  /\ UNCHANGED <<config, exit_code, out_exists, out_rows, run, dry_run, start_len>>

\* "Done." and disconnect
DmFinish ==
  /\ script = "dm" /\ pc = "finish"
  /\ pc' = "done"
  /\ UNCHANGED <<config, exit_code, out_exists, out_rows, run, dry_run, loc, trace, start_len>>

NextDm ==
  \/ DmModule \/ DmExit \/ DmMain \/ DmLoop \/ DmResolve \/ DmSend \/ DmPeerFlood \/ DmLog \/ DmDelay
  \/ DmFinish

\* ------------------------------------------------- invite_users_to_channel
InvLocals ==
  [ users |-> <<>>, i |-> 0, batch |-> <<>>, j |-> 0, results |-> <<>>,
    success_count |-> 0, failure_count |-> 0, skipped_count |-> 0,
    status |-> "", reason |-> Reason(""), user_entity |-> <<>>, wait_seconds |-> 0 ]

RECURSIVE ReadUserRows(_, _)
ReadUserRows(rows, seen_user_ids) ==
  IF rows = <<>> THEN <<>>
  ELSE LET user_id  == Strip(Head(rows).user_id)
           username == Head(rows).username
       IN  IF (user_id = <<>> /\ username = "")
              \/ (user_id # <<>> /\ user_id \in seen_user_ids)
             THEN ReadUserRows(Tail(rows), seen_user_ids)
             ELSE <<[user_id |-> user_id, username |-> username]>>
                    \o ReadUserRows(Tail(rows),
                         IF user_id # <<>> THEN seen_user_ids \cup {user_id}
                                           ELSE seen_user_ids)

\* read_users_from_csv: rows without a repeated user_id
read_users_from_csv(rows) == ReadUserRows(rows, {})

Min(a, b) == IF a < b THEN a ELSE b

InvUser == loc.batch[loc.j]

\* position of the current user in users
InvItem == loc.i + loc.j

InvEvent(op, res, secs) == Event(InvItem, InvUser.user_id, op, res, secs)

\* exceptions of client.get_entity(user_id_int) that lead to the second try
RetryLookupErrors == {"ValueError", "UserPrivacyRestrictedError"}
IdLookupResults == LookupResults \cup {"ValueError"}

\* the reason add_user_to_channel returns for an exception
AddUserReason(e) ==
  CASE e.cls = "UserPrivacyRestrictedError"  -> Reason("UserPrivacyRestricted")
    [] e.cls = "UserAlreadyParticipantError" -> Reason("AlreadyParticipant")
    [] e.cls = "UserNotMutualContactError"   -> Reason("NotMutualContact")
    [] e.cls = "UserChannelsTooMuchError"    -> Reason("ChannelsTooMuch")
    [] e.cls = "UserKickedError"             -> Reason("UserKicked")
    [] e.cls = "InputUserDeactivatedError"   -> Reason("UserDeactivated")
    [] e.cls = "PeerFloodError"              -> Reason("PeerFlood")
    [] e.cls = "FloodWaitError"              -> FloodWaitReason(e.seconds)
    [] OTHER -> [code |-> "Error: str50", cls |-> e.cls, arg |-> StrOfInt(e.seconds)]

\* module level: ValueError (an uncaught exception, exit status 1) unless
\* TG_API_ID, TG_API_HASH and TG_TARGET_CHANNEL are set
InvModule ==
  /\ script = "inv" /\ pc = "module"
  /\ IF env.creds /\ env.target
       THEN pc' = "start" /\ exit_code' = exit_code
       ELSE pc' = "exited" /\ exit_code' = <<1>>
  /\ UNCHANGED <<config, out_exists, out_rows, run, dry_run, loc, trace, start_len>>

\* main() disconnects and returns: the interpreter exits with status 0
InvExit ==
  /\ script = "inv" /\ pc = "done"
  /\ pc' = "exited" /\ exit_code' = <<0>>
  /\ UNCHANGED <<config, out_exists, out_rows, run, dry_run, loc, trace, start_len>>

\* invite_users_to_channel(), up to the loop; the output file is not read
InvMain ==
  /\ script = "inv" /\ pc = "start"
  /\ \E authenticated \in BOOLEAN, connected \in BOOLEAN :
       LET users == read_users_from_csv(csv)
       IN  IF authenticated /\ env.csv_exists /\ users # <<>> /\ connected
             THEN /\ pc' = "batch"
                  /\ loc' = [InvLocals EXCEPT !.users = users]
             ELSE /\ pc' = "done"
                  /\ loc' = loc
  /\ UNCHANGED <<config, exit_code, out_exists, out_rows, run, dry_run, trace, start_len>>

\* for i in range(0, total_users, BATCH_SIZE): batch = users[i:i + BATCH_SIZE]
InvBatch ==
  /\ script = "inv" /\ pc = "batch"
  /\ IF loc.i >= Len(loc.users)
       THEN /\ pc' = "summary"
            /\ loc' = loc
       ELSE /\ pc' = "user"
            /\ loc' = [loc EXCEPT
                 !.batch = SubSeq(loc.users, loc.i + 1,
                                  Min(loc.i + batch_size, Len(loc.users))),
                 !.j = 1]
  /\ UNCHANGED <<config, exit_code, out_exists, out_rows, run, dry_run, trace, start_len>>

\* for user in batch: get_user_entity (username first, then user_id, whose
\* lookup is tried again after ValueError, TypeError or a privacy error)
InvLookup ==
  /\ script = "inv" /\ pc = "user"
  /\ IF loc.j > Len(loc.batch)
       THEN /\ pc' = "flush"
            /\ UNCHANGED <<loc, trace>>
       ELSE \E r1 \in LookupResults, r2 \in IdLookupResults, r3 \in LookupResults :
              LET by_name == InvUser.username # ""
                  found1  == by_name /\ r1 = "ok"
                  by_id   == ~found1 /\ InvUser.user_id # <<>>
                  again   == by_id /\ r2 \in RetryLookupErrors
                  ev1 == IF by_name THEN <<InvEvent("get_entity(username)", r1, 0)>> ELSE <<>>
                  ev2 == IF by_id THEN <<InvEvent("get_entity(user_id)", r2, 0)>> ELSE <<>>
                  ev3 == IF again THEN <<InvEvent("get_entity(user_id)", r3, 0)>> ELSE <<>>
                  found == found1 \/ (by_id /\ r2 = "ok") \/ (again /\ r3 = "ok")
              IN  /\ trace' = trace \o ev1 \o ev2 \o ev3
                  /\ IF found
                       THEN /\ loc' = [loc EXCEPT !.user_entity = <<"e">> \o InvUser.user_id]
                            /\ pc' = "check"
                       ELSE /\ loc' = [loc EXCEPT !.user_entity = <<>>,
                                         !.status = "Failed",
                                         !.reason = Reason("UserNotFound"),
                                         !.failure_count = @ + 1]
                            /\ pc' = "record"
  /\ UNCHANGED <<config, exit_code, out_exists, out_rows, run, dry_run, start_len>>

\* is_user_in_channel: True when the request answers, False on any exception
InvCheck ==
  /\ script = "inv" /\ pc = "check"
  /\ \/ /\ trace' = Append(trace, InvEvent("GetParticipantRequest", "participant", 0))
        /\ loc' = [loc EXCEPT !.status = "Skipped", !.reason = Reason("AlreadyMember"),
                              !.skipped_count = @ + 1]
        /\ pc' = "record"
     \/ \E e \in CheckErrors :
          /\ trace' = Append(trace, InvEvent("GetParticipantRequest", e.cls, e.seconds))
          /\ loc' = loc
          /\ pc' = "add"
  /\ UNCHANGED <<config, exit_code, out_exists, out_rows, run, dry_run, start_len>>

\* add_user_to_channel and the classification of its result
InvAdd ==
  /\ script = "inv" /\ pc = "add"
  /\ \/ /\ trace' = Append(trace, InvEvent("InviteToChannelRequest", "ok", 0))
        /\ loc' = [loc EXCEPT !.status = "Success", !.reason = Reason("Success"),
                              !.success_count = @ + 1]
        /\ pc' = "record"
     \/ \E e \in InviteErrors :
          LET reason == AddUserReason(e)
          IN  /\ trace' = Append(trace, InvEvent("InviteToChannelRequest", e.cls, e.seconds))
              /\ IF reason.code = "FloodWait_s"
                   THEN /\ loc' = [loc EXCEPT !.status = "Failed", !.reason = reason,
                                     !.failure_count = @ + 1,
                                     !.wait_seconds = IntOfStr(reason.arg)]
                        /\ pc' = "flood_sleep"
                   ELSE /\ loc' = [loc EXCEPT !.status = "Failed", !.reason = reason,
                                     !.failure_count = @ + 1]
                        /\ pc' = "record"
  /\ UNCHANGED <<config, exit_code, out_exists, out_rows, run, dry_run, start_len>>

\* "Handle FloodWait": sleep the number of seconds parsed from the reason
InvFloodSleep ==
  /\ script = "inv" /\ pc = "flood_sleep"
  /\ trace' = Append(trace, InvEvent("sleep", "flood_wait", loc.wait_seconds))
  /\ pc' = "record"
  /\ UNCHANGED <<config, exit_code, out_exists, out_rows, run, dry_run, loc, start_len>>

\* "Record result": results.append, then the one-second delay
InvRecord ==
  /\ script = "inv" /\ pc = "record"
  /\ loc' = [loc EXCEPT !.results = Append(@, Record(InvUser.user_id, loc.status, loc.reason)),
                        !.j = @ + 1]
  /\ trace' = trace \o <<InvEvent("results.append", loc.status, 0),
                         InvEvent("sleep", "delay", 1)>>
  /\ pc' = "user"
  /\ UNCHANGED <<config, exit_code, out_exists, out_rows, run, dry_run, start_len>>

\* write_result_to_csv: append all rows of results, header first on a new file
write_result_to_csv(exists, rows, results) ==
  IF results = <<>> THEN rows
  ELSE IF exists THEN rows \o results ELSE <<HeaderRow>> \o results

\* end of a batch: write the results, clear them, wait between batches
InvFlush ==
  /\ script = "inv" /\ pc = "flush"
  /\ out_rows' = write_result_to_csv(out_exists, out_rows, loc.results)
  /\ out_exists' = (out_exists \/ loc.results # <<>>)
  /\ trace' = trace
       \o [k \in 1..Len(loc.results) |->
             Event(loc.i + k, loc.results[k].key, "write_result_to_csv",
                   loc.results[k].status, 0)]
       \o (IF loc.i + batch_size < Len(loc.users)
             THEN <<Event(0, <<>>, "sleep", "batch", BATCH_DELAY_DEFAULT)>> ELSE <<>>)
  /\ loc' = [loc EXCEPT !.results = <<>>, !.i = @ + batch_size]
  /\ pc' = "batch"
  /\ UNCHANGED <<config, exit_code, run, dry_run, start_len>>

\* final summary; main() disconnects
InvSummary ==
  /\ script = "inv" /\ pc = "summary"
  /\ pc' = "done"
  /\ UNCHANGED <<config, exit_code, out_exists, out_rows, run, dry_run, loc, trace, start_len>>

NextInv ==
  \/ InvModule \/ InvExit \/ InvMain \/ InvBatch \/ InvLookup \/ InvCheck \/ InvAdd \/ InvFloodSleep
  \/ InvRecord \/ InvFlush \/ InvSummary

\* ------------------------------------------------------------------ runs
Locals(s) ==
  CASE s = "add" -> AddLocals [] s = "dm" -> DmLocals [] s = "inv" -> InvLocals

Rows(s) == IF s = "add" THEN PatientRows ELSE UserRows

\* DAILY_LIMIT as shipped, and the smallest limit an operator can set
Limits(s) ==
  CASE s = "add" -> {1, ADD_DAILY_LIMIT} [] s = "dm" -> {1, DM_DAILY_LIMIT}
    [] s = "inv" -> {0}

\* BATCH_SIZE from the environment: batches of one, or the default
BatchSizes(s) == IF s = "inv" THEN {1, BATCH_SIZE_DEFAULT} ELSE {0}

\* .env complete and the input CSV in place
ValidEnv == [creds |-> TRUE, target |-> TRUE, csv_exists |-> TRUE]

\* every combination of missing credentials, missing target, missing CSV
AllEnvs == [creds : BOOLEAN, target : BOOLEAN, csv_exists : BOOLEAN]

InitFor(scripts, n, envs) ==
  /\ script \in scripts
  /\ csv \in SeqsUpTo(Rows(script), n)
  /\ daily_limit \in Limits(script)
  /\ batch_size \in BatchSizes(script)
  /\ env \in envs
  /\ out_exists = FALSE
  /\ out_rows = <<>>
  /\ run = 1
  /\ dry_run = FALSE
  /\ pc = "module"
  /\ loc = Locals(script)
  /\ trace = <<>>
  /\ start_len = 0
  /\ exit_code = <<>>

\* the operator starts the script again on the same files
Invoke ==
  /\ pc = "exited" /\ run < MaxRuns
  /\ run' = run + 1
  /\ pc' = "module"
  /\ loc' = Locals(script)
  /\ dry_run' = FALSE
  /\ trace' = <<>>
  /\ start_len' = Len(out_rows)
  /\ exit_code' = <<>>
  /\ UNCHANGED <<config, out_exists, out_rows>>

Init == InitFor({"add", "dm", "inv"}, MaxItems, {ValidEnv})
Next == NextAdd \/ NextDm \/ NextInv \/ Invoke
Spec == Init /\ [][Next]_vars

\* repeated runs of add_patients_to_channel
InitAdd == InitFor({"add"}, MaxItems, {ValidEnv})
SpecAdd == InitAdd /\ [][NextAdd \/ Invoke]_vars

\* repeated runs of safe_dm_invite
InitDm == InitFor({"dm"}, MaxItems, {ValidEnv})
SpecDm == InitDm /\ [][NextDm \/ Invoke]_vars

\* repeated runs of either script that reads its own log
InitAddDm == InitFor({"add", "dm"}, MaxItems, {ValidEnv})
SpecAddDm == InitAddDm /\ [][NextAdd \/ NextDm \/ Invoke]_vars

\* one run of either script that reads its own log
SpecAddDmOnce == InitAddDm /\ [][NextAdd \/ NextDm]_vars

\* one run of invite_users_to_channel
InitInv == InitFor({"inv"}, MaxItems, {ValidEnv})
SpecInv == InitInv /\ [][NextInv]_vars

\* repeated runs of invite_users_to_channel on a short CSV
InitInvResume == InitFor({"inv"}, MaxResumeItems, {ValidEnv})
SpecInvResume == InitInvResume /\ [][NextInv \/ Invoke]_vars

\* one run of any of the three scripts
InitOneRun == InitFor({"add", "dm", "inv"}, MaxItems, {ValidEnv})
SpecOneRun == InitOneRun /\ [][NextAdd \/ NextDm \/ NextInv]_vars

\* one run of any of the three scripts in which every remote call returns or
\* raises and every sleep ends: the one coroutine always takes its next step
SpecOneRunFair == SpecOneRun /\ WF_vars(NextAdd \/ NextDm \/ NextInv)

\* runs of the three scripts on a short CSV under every state of the settings
InitStartup == InitFor({"add", "dm", "inv"}, MaxResumeItems, AllEnvs)
SpecStartup == InitStartup /\ [][Next]_vars

\* read_patient_csv applied to any patient export
InitCsv ==
  /\ script = "add"
  /\ csv \in SeqsUpTo(CsvRows, MaxCsvRows)
  /\ daily_limit = ADD_DAILY_LIMIT
  /\ batch_size = 0
  /\ env = ValidEnv
  /\ out_exists = FALSE
  /\ out_rows = <<>>
  /\ run = 1
  /\ dry_run = FALSE
  /\ pc = "csv"
  /\ loc = [raised |-> FALSE, patients |-> <<>>]
  /\ trace = <<>>
  /\ start_len = 0
  /\ exit_code = <<>>

\* patients = read_patient_csv(CSV_FILE), inside the try of main()
ReadPatientCsv ==
  /\ script = "add" /\ pc = "csv"
  /\ loc' = read_patient_csv(env.csv_exists, csv)
  /\ pc' = "read"
  /\ UNCHANGED <<config, exit_code, out_exists, out_rows, run, dry_run, trace, start_len>>

SpecCsv == InitCsv /\ [][ReadPatientCsv]_vars

\* read_users_from_csv applied to any telegram_users.csv
InitUsers ==
  /\ script = "inv"
  /\ csv \in SeqsUpTo(UserCsvRows, MaxCsvRows)
  /\ daily_limit = 0
  /\ batch_size = BATCH_SIZE_DEFAULT
  /\ env = ValidEnv
  /\ out_exists = FALSE
  /\ out_rows = <<>>
  /\ run = 1
  /\ dry_run = FALSE
  /\ pc = "csv"
  /\ loc = [users |-> <<>>]
  /\ trace = <<>>
  /\ start_len = 0
  /\ exit_code = <<>>

\* users = read_users_from_csv(CSV_FILE), inside the try of
\* invite_users_to_channel()
ReadUsersCsv ==
  /\ script = "inv" /\ pc = "csv"
  /\ loc' = [users |-> read_users_from_csv(csv)]
  /\ pc' = "read"
  /\ UNCHANGED <<config, exit_code, out_exists, out_rows, run, dry_run, trace, start_len>>

SpecUsers == InitUsers /\ [][ReadUsersCsv]_vars

\* ======================================================================
\* Properties.  They read the files and the history of the current run.
\* ======================================================================
Events == { trace[n] : n \in 1..Len(trace) }

CallOps ==
  { "ImportContactsRequest", "GetParticipantRequest", "InviteToChannelRequest",
    "DeleteContactsRequest", "send_message", "get_entity(username)",
    "get_entity(user_id)" }

WriteOps == {"write_result", "write_result_to_csv"}

IsWrite(e) == e.op \in WriteOps

\* the writes of the current run, in order
Writes == SelectSeq(trace, IsWrite)

\* index in out_rows of the first record of the current run
FirstNew == IF start_len = 0 THEN 2 ELSE start_len + 1

\* the row appended by the n-th write of the current run
WrittenRow(n) == out_rows[FirstNew + n - 1]

\* the writes of the current run made for item k
WritesOf(k) == { n \in 1..Len(Writes) : Writes[n].item = k }

\* the items the loop of the current run has started to process
ItemsStarted == { e.item : e \in Events } \ {0}

\* the non-empty keys that had a record when the current run started
KeysAtStart == { out_rows[k].key : k \in 2..start_len } \ {<<>>}

\* nothing is done, and nothing is written, for a key of KeysAtStart
NoReattempt ==
  /\ \A e \in Events : e.key \notin KeysAtStart
  /\ \A k \in FirstNew..Len(out_rows) : out_rows[k].key \notin KeysAtStart

\* item k has exactly one record in this run, and it is Failed with this reason
OneFailedRecord(k, reason) ==
  /\ Cardinality(WritesOf(k)) = 1
  /\ \A n \in WritesOf(k) :
       WrittenRow(n).status = "Failed" /\ WrittenRow(n).reason = reason

\* after the n-th event only the record of the same item is written
OnlyItsRecordAfter(n) ==
  \A m \in (n + 1)..Len(trace) :
    trace[m].item = trace[n].item /\ trace[m].op = "write_result"

IsCall(e, op, cls) == e.op = op /\ e.res = cls

\* C1: in add_patients_to_channel and safe_dm_invite a run makes no call, no
\* sleep and no record for a key that had a record in the log when the run
\* started, whatever the status of that record.
C1_ResumeSkipsLogged == script \in {"add", "dm"} => NoReattempt

\* a later run that found a Failed record in the log and went on to work
C1_Witness ==
  /\ script \in {"add", "dm"} /\ run > 1 /\ pc = "done" /\ trace # <<>>
  /\ \E k \in 2..start_len :
       out_rows[k].status = "Failed" /\ \E r \in 1..Len(csv) :
         out_rows[k].key = (IF script = "add" THEN normalize_phone(csv[r].phone)
                                              ELSE csv[r].user_id)

\* C2: a second invocation of invite_users_to_channel makes no lookup, check,
\* invite or record for a user_id that already has a record in the log.
C2_InvResumeSkipsLogged == script = "inv" => NoReattempt

\* C3: in add_patients_to_channel, when a contact import, membership check or
\* invite for item k raised PeerFlood, the finished run has exactly one record
\* for k, Failed/PeerFlood, and did nothing after it.
C3_AddPeerFloodStops ==
  (script = "add" /\ pc = "done") =>
    \A n \in 1..Len(trace) :
      ( /\ trace[n].op \in {"ImportContactsRequest", "GetParticipantRequest",
                            "InviteToChannelRequest"}
        /\ trace[n].res = "PeerFloodError" )
      => /\ OneFailedRecord(trace[n].item, Reason("PeerFlood"))
         /\ OnlyItsRecordAfter(n)

\* C4: in safe_dm_invite, once send_message for item k raised PeerFlood the
\* run only writes the record of k, Failed/PeerFlood, exactly once, and stops:
\* no event of a later item follows.
C4_DmPeerFloodStops ==
  script = "dm" =>
    \A n \in 1..Len(trace) :
      IsCall(trace[n], "send_message", "PeerFloodError")
      => /\ OnlyItsRecordAfter(n)
         /\ pc \in {"peer_flood", "finish", "done", "exited"}
         /\ Cardinality(WritesOf(trace[n].item)) <= 1
         /\ pc # "peer_flood" =>
              /\ OneFailedRecord(trace[n].item, Reason("PeerFlood"))
              /\ \A w \in WritesOf(trace[n].item) :
                   WrittenRow(w).key = loc.users_to_contact[trace[n].item].user_id

\* a finished run that PeerFlood stopped before its last item
C4_Witness ==
  /\ script = "dm" /\ pc = "done" /\ ~dry_run
  /\ \E n \in 1..Len(trace) :
       /\ IsCall(trace[n], "send_message", "PeerFloodError")
       /\ trace[n].item < Len(loc.users_to_contact)
       /\ Cardinality(WritesOf(trace[n].item)) = 1

\* C5: in invite_users_to_channel, after the invite for item k failed with
\* PeerFlood nothing is attempted or recorded for a later item.
C5_InvPeerFloodStops ==
  script = "inv" =>
    \A n \in 1..Len(trace) :
      IsCall(trace[n], "InviteToChannelRequest", "PeerFloodError")
      => \A m \in (n + 1)..Len(trace) : trace[m].item <= trace[n].item

\* C6: a finished run of add_patients_to_channel has appended exactly one
\* record for every item its loop started, and no other record.
C6_AddOneRecordPerItem ==
  (script = "add" /\ pc = "done") =>
    /\ \A k \in ItemsStarted : Cardinality(WritesOf(k)) = 1
    /\ Len(Writes) = Cardinality(ItemsStarted)

\* C7: a finished non-dry run of safe_dm_invite has appended exactly one
\* record for every item it started, the item a FloodWait stopped it on included.
C7_DmOneRecordPerItem ==
  (script = "dm" /\ ~dry_run /\ pc = "done") =>
    \A k \in ItemsStarted : Cardinality(WritesOf(k)) = 1

\* C8: in add_patients_to_channel, an invite for item k that raised
\* FloodWait(w) with w > 600 leaves exactly one record Failed/FloodWait_<w>s
\* for k and nothing after it; with w = 600 the run goes on to item k+1.
C8_AddFloodWaitCeiling ==
  (script = "add" /\ pc = "done") =>
    \A n \in 1..Len(trace) :
      IsCall(trace[n], "InviteToChannelRequest", "FloodWaitError")
      => IF trace[n].secs > CEILING
           THEN /\ OneFailedRecord(trace[n].item, FloodWaitReason(trace[n].secs))
                /\ OnlyItsRecordAfter(n)
           ELSE trace[n].item < Len(loc.remaining)
                  => \E m \in (n + 1)..Len(trace) : trace[m].item = trace[n].item + 1

\* C9: in add_patients_to_channel, an invite for item k that raised
\* FloodWait(w) with w <= 600 is followed by a sleep of w seconds, by no
\* further call for item k, and by item k+1 when there is one.
C9_AddFloodWaitContinues ==
  (script = "add" /\ pc = "done") =>
    \A n \in 1..Len(trace) :
      ( IsCall(trace[n], "InviteToChannelRequest", "FloodWaitError")
        /\ trace[n].secs <= CEILING )
      => /\ \E m \in (n + 1)..Len(trace) :
              /\ trace[m].op = "sleep" /\ trace[m].res = "flood_wait"
              /\ trace[m].item = trace[n].item /\ trace[m].secs = trace[n].secs
         /\ \A m \in (n + 1)..Len(trace) :
              trace[m].item = trace[n].item => trace[m].op \notin CallOps
         /\ trace[n].item < Len(loc.remaining)
              => \E m \in (n + 1)..Len(trace) : trace[m].item = trace[n].item + 1

\* C10: in invite_users_to_channel, after the invite for item k failed with
\* FloodWait(w), w > 600, the run does not sleep w seconds and attempts no
\* later item.
C10_InvFloodWaitCeiling ==
  script = "inv" =>
    \A n \in 1..Len(trace) :
      ( IsCall(trace[n], "InviteToChannelRequest", "FloodWaitError")
        /\ trace[n].secs > CEILING )
      => \A m \in (n + 1)..Len(trace) :
           /\ trace[m].item <= trace[n].item
           /\ ~(trace[m].op = "sleep" /\ trace[m].res = "flood_wait")

\* the successful actions of the current run: positions in the history
OkActions ==
  { n \in 1..Len(trace) :
      trace[n].op \in {"InviteToChannelRequest", "send_message"} /\ trace[n].res = "ok" }

\* the records of the current run: positions in the log
NewRows == FirstNew..Len(out_rows)

\* a sleep of the pacing delay between two items
IsPacing(e) == e.op = "sleep" /\ e.res = "delay"

\* C11: with daily limit N, a run of add_patients_to_channel or of
\* safe_dm_invite appends at most N Success records, and after the N-th
\* successful action nothing is called or recorded for a later item.
C11_DailyLimitStops ==
  script \in {"add", "dm"} =>
    /\ Cardinality({ k \in NewRows : out_rows[k].status = "Success" }) <= daily_limit
    /\ \A n \in OkActions :
         Cardinality({ m \in OkActions : m <= n }) >= daily_limit
         => \A m \in (n + 1)..Len(trace) : trace[m].item = trace[n].item

\* a finished run that the limit stopped before the last item of its list
C11_Witness ==
  /\ script \in {"add", "dm"} /\ pc = "done" /\ ~dry_run
  /\ Cardinality({ k \in NewRows : out_rows[k].status = "Success" }) = daily_limit
  /\ \E n \in OkActions :
       trace[n].item < (IF script = "add" THEN Len(loc.remaining)
                                          ELSE Len(loc.users_to_contact))

\* C12: with --dry-run, add_patients_to_channel and safe_dm_invite make no
\* remote call for any item, and every record of the run has status DryRun.
C12_DryRunNoAction ==
  (script \in {"add", "dm"} /\ dry_run) =>
    /\ \A e \in Events : e.op \notin CallOps
    /\ \A k \in NewRows : out_rows[k].status = "DryRun"

\* a finished dry run that went through two items
C12_Witness ==
  /\ script \in {"add", "dm"} /\ dry_run /\ pc = "done"
  /\ Cardinality(ItemsStarted) = MaxItems

\* C13: a finished dry run of safe_dm_invite has appended exactly one record
\* DryRun/Simulated for every item it went through.
C13_DmDryRunRecords ==
  (script = "dm" /\ dry_run /\ pc = "done") =>
    \A k \in ItemsStarted :
      /\ Cardinality(WritesOf(k)) = 1
      /\ \A n \in WritesOf(k) :
           WrittenRow(n).status = "DryRun" /\ WrittenRow(n).reason = Reason("Simulated")

\* C14: in a non-dry run of add_patients_to_channel every pacing sleep comes
\* right after the record of its item, lasts MIN_DELAY..MAX_DELAY seconds and
\* is not made for the last remaining item; and a record that is followed by
\* a later item is followed at once by the pacing sleep, before that item.
C14_AddPacing ==
  (script = "add" /\ ~dry_run) =>
    /\ \A n \in 1..Len(trace) :
         IsPacing(trace[n])
         => /\ n > 1 /\ IsWrite(trace[n - 1]) /\ trace[n - 1].item = trace[n].item
            /\ trace[n].secs \in MIN_DELAY..MAX_DELAY
            /\ trace[n].item < Len(loc.remaining)
    /\ \A n \in 1..Len(trace) :
         ( IsWrite(trace[n])
           /\ \E m \in (n + 1)..Len(trace) : trace[m].item > trace[n].item )
         => IsPacing(trace[n + 1]) /\ trace[n + 1].item = trace[n].item

\* a finished run that logged item 1, slept, and called for item 2
C14_Witness ==
  /\ script = "add" /\ ~dry_run /\ pc = "done"
  /\ \E n \in 1..(Len(trace) - 1) :
       /\ IsWrite(trace[n]) /\ trace[n].item = 1
       /\ IsPacing(trace[n + 1])
       /\ \E m \in (n + 2)..Len(trace) :
            trace[m].item = 2 /\ trace[m].op \in CallOps

\* C15: at every point of a run of invite_users_to_channel (any of which is
\* where a kill may fall) at most one item that was started has no record in
\* the log, and no item has two.
C15_InvKillLosesOne ==
  script = "inv" =>
    /\ Cardinality({ k \in ItemsStarted : WritesOf(k) = {} }) <= 1
    /\ \A k \in ItemsStarted : Cardinality(WritesOf(k)) <= 1

\* C19: in a run of safe_dm_invite no user_id gets more than one
\* send_message and no user_id gets more than one record, also when the CSV
\* has the same user_id in several rows.
C19_DmKeyOnce ==
  script = "dm" =>
    /\ \A m, n \in 1..Len(trace) :
         ( trace[m].op = "send_message" /\ trace[n].op = "send_message"
           /\ trace[m].key = trace[n].key ) => m = n
    /\ \A j, k \in NewRows : out_rows[j].key = out_rows[k].key => j = k

\* C16: in each of the three scripts, when the input CSV does not exist the
\* process ends with a non-zero exit code, having made no remote call and
\* appended no record.
C16_MissingCsvExitCode ==
  (pc = "exited" /\ ~env.csv_exists) =>
    /\ exit_code # <<0>>
    /\ \A e \in Events : e.op \notin CallOps
    /\ NewRows = {}

\* C17: in each of the three scripts, when the API credentials or the target
\* setting is missing no remote call is ever made, and the process ends with
\* an error.
C17_MissingSettingStops ==
  (~env.creds \/ ~env.target) =>
    /\ \A e \in Events : e.op \notin CallOps
    /\ pc = "exited" => exit_code = <<1>>

\* the data lines whose phone normalizes to a non-empty value
ValidLines == { r \in 1..Len(csv) : normalize_phone(csv[r].phone) # <<>> }

\* those of them that are the first with their normalized phone
FirstLines ==
  { r \in ValidLines :
      \A q \in ValidLines :
        q < r => normalize_phone(csv[q].phone) # normalize_phone(csv[r].phone) }

\* the list has one entry per line of FirstLines, in their order, with the
\* name and card number of that line
OnePerPhone(patients) ==
  /\ Len(patients) = Cardinality(FirstLines)
  /\ \A r \in FirstLines :
       LET n == Cardinality({ q \in FirstLines : q <= r })
       IN  patients[n] = [card_no |-> csv[r].card_no, name |-> csv[r].name,
                          phone |-> normalize_phone(csv[r].phone)]

\* C18: for every input CSV read_patient_csv returns a list with exactly one
\* entry per distinct normalized phone among the rows whose phone normalizes
\* to a non-empty value, with the name and card number of the first such row,
\* in the order of the first occurrences.
C18_ReadPatientCsvDedup ==
  pc = "read" => ~loc.raised /\ OnePerPhone(loc.patients)

\* the item counts of the current run
ItemCount ==
  CASE script = "add" -> Len(loc.remaining)
    [] script = "dm"  -> Len(loc.users_to_contact)
    [] script = "inv" -> Len(loc.users)

\* a per-item remote call that raised an exception no handler names
IsUnclassified(e) == e.op \in CallOps /\ e.res = OtherError.cls

\* the calls that act on the item; the others look it up or check membership
ActionOps == {"ImportContactsRequest", "InviteToChannelRequest", "send_message"}

\* item k has exactly one record in this run, and its status is Failed
OneFailed(k) ==
  /\ Cardinality(WritesOf(k)) = 1
  /\ \A n \in WritesOf(k) : WrittenRow(n).status = "Failed"

\* the run went on to the item after k, when there is one
WentOn(n, k) ==
  k < ItemCount => \E m \in (n + 1)..Len(trace) : trace[m].item = k + 1

\* the statement of C20 as first written: any per-item remote call
C20_UnclassifiedAlwaysFailed ==
  pc = "done" =>
    \A n \in 1..Len(trace) :
      IsUnclassified(trace[n]) => OneFailed(trace[n].item) /\ WentOn(n, trace[n].item)

\* C20: in a finished run of any of the three scripts, an unclassified
\* exception of a contact import, invite or send_message for item k leaves
\* exactly one record for k, Failed, and the run goes on to item k+1; an
\* unclassified exception of a lookup or membership check is absorbed, and
\* the next step of the run is still a step for item k.
C20_UnclassifiedNeverEndsRun ==
  pc = "done" =>
    \A n \in 1..Len(trace) :
      IsUnclassified(trace[n]) =>
        IF trace[n].op \in ActionOps
          THEN OneFailed(trace[n].item) /\ WentOn(n, trace[n].item)
          ELSE n < Len(trace) /\ trace[n + 1].item = trace[n].item

\* a finished run where the action for item 1 raised and item 2 was called
C20_Witness ==
  /\ pc = "done" /\ ItemCount = MaxItems
  /\ \E n \in 1..Len(trace) :
       /\ IsUnclassified(trace[n]) /\ trace[n].op \in ActionOps /\ trace[n].item = 1
       /\ OneFailed(1)
       /\ \E m \in (n + 1)..Len(trace) : trace[m].item = 2 /\ trace[m].op \in CallOps

\* rows is what the log held before, followed by exactly one more record
\* (after the header, when the log was empty)
AppendsOne(before, rows) ==
  /\ Len(rows) = Len(before) + (IF before = <<>> THEN 2 ELSE 1)
  /\ SubSeq(rows, 1, Len(before)) = before
  /\ rows[1] = HeaderRow
  /\ \A k \in 2..Len(rows) : rows[k] # HeaderRow

\* a step of add_patients_to_channel or safe_dm_invite leaves the log as it
\* is or appends one record, and it writes exactly when it appends
LogStep ==
  script \in {"add", "dm"} =>
    /\ out_rows' = out_rows \/ AppendsOne(out_rows, out_rows')
    /\ (Len(SelectSeq(trace', IsWrite)) = Len(Writes) + 1) <=> (out_rows' # out_rows)

\* C21: across the runs of add_patients_to_channel and safe_dm_invite on one
\* output file every step leaves the log as it is or appends exactly one
\* record to it, all earlier rows unchanged and in place, the header being
\* the first row and nowhere else; and a step writes exactly when it appends.
C21_LogOnlyGrows == [][LogStep]_vars

\* a second run that appended a record to the log the first run left
C21_Witness ==
  /\ script \in {"add", "dm"} /\ run = 2 /\ start_len >= 2
  /\ Len(out_rows) > start_len
  /\ out_rows[1] = HeaderRow

\* the invites and messages of the current run: positions in the history
ActionCalls ==
  { n \in 1..Len(trace) : trace[n].op \in {"InviteToChannelRequest", "send_message"} }

\* the statement of C22 as first written: calls of any outcome are counted
C22_CallsWithinLimit ==
  script \in {"add", "dm"} => Cardinality(ActionCalls) <= daily_limit

\* C22: in a run of add_patients_to_channel or safe_dm_invite the invites
\* (messages) that succeeded never exceed DAILY_LIMIT and no invite (message)
\* is issued once DAILY_LIMIT of them have succeeded; calls that failed are
\* not counted, so the calls issued are bounded by one per remaining item.
C22_SuccessesWithinLimit ==
  script \in {"add", "dm"} =>
    /\ Cardinality(OkActions) <= daily_limit
    /\ \A n \in ActionCalls :
         Cardinality({ m \in OkActions : m < n }) < daily_limit
    /\ \A m, n \in ActionCalls : trace[m].item = trace[n].item => m = n

\* a finished run with limit 1 that issued two invites (messages): the first
\* failed, the second succeeded
C22_Witness ==
  /\ script \in {"add", "dm"} /\ pc = "done" /\ daily_limit = 1
  /\ Cardinality(ActionCalls) = 2
  /\ Cardinality(OkActions) = 1

\* C23: in a finished run of add_patients_to_channel, an invite for item k
\* that failed with one of the five classified failures leaves exactly one
\* record for k, Failed with the stable code of that failure, and the run
\* goes on to item k+1, whichever way the membership check before it ended.
C23_AddClassifiedReason ==
  (script = "add" /\ pc = "done") =>
    \A n \in 1..Len(trace) :
      ( /\ trace[n].op = "InviteToChannelRequest"
        /\ trace[n].res \in { e.cls : e \in ClassifiedInviteErrors } )
      => /\ OneFailedRecord(trace[n].item, InviteReason([cls |-> trace[n].res]))
         /\ WentOn(n, trace[n].item)

\* C24: in a finished run of add_patients_to_channel a DeleteContactsRequest
\* has been issued for every item whose contact import returned a user.
C24_AddContactsDeleted ==
  (script = "add" /\ pc = "done") =>
    \A n \in 1..Len(trace) :
      IsCall(trace[n], "ImportContactsRequest", "user")
      => \E m \in (n + 1)..Len(trace) :
           trace[m].op = "DeleteContactsRequest" /\ trace[m].item = trace[n].item

\* the records of the current run that have this status
RowsWith(status) == { k \in NewRows : out_rows[k].status = status }

\* C27: at the end of a non-dry run of add_patients_to_channel the four
\* counters of the summary add up to the number of records the run appended,
\* success_count is the number of Success records and already_member the
\* number of Skipped records.
C27_AddSummaryCounts ==
  (script = "add" /\ ~dry_run /\ pc = "summary") =>
    /\ loc.success_count + loc.already_member + loc.not_on_telegram + loc.fail_count
         = Cardinality(NewRows)
    /\ loc.success_count = Cardinality(RowsWith("Success"))
    /\ loc.already_member = Cardinality(RowsWith("Skipped"))

\* C25: the list read_users_from_csv returns holds no two entries with the
\* same non-empty user_id, no two entries with an empty user_id and the same
\* username, and no entry with neither; the entry kept for a user is the
\* first row of the CSV that names it.
C25_ReadUsersDedup ==
  (script = "inv" /\ pc = "read") =>
    LET users == loc.users
    IN  /\ \A m, n \in 1..Len(users) :
             ( users[m].user_id # <<>> /\ users[m].user_id = users[n].user_id ) => m = n
        /\ \A m, n \in 1..Len(users) :
             ( /\ users[m].user_id = <<>> /\ users[n].user_id = <<>>
               /\ users[m].username = users[n].username ) => m = n
        /\ \A n \in 1..Len(users) : users[n].user_id # <<>> \/ users[n].username # ""
        /\ \A n \in 1..Len(users) :
             users[n].user_id # <<>> =>
               \E r \in 1..Len(csv) :
                 /\ Strip(csv[r].user_id) = users[n].user_id
                 /\ csv[r].username = users[n].username
                 /\ \A q \in 1..(r - 1) : Strip(csv[q].user_id) # users[n].user_id

\* the step that records an item: a write to the log or, in
\* invite_users_to_channel, the append to the results of the batch
IsRecording(e) == e.op \in {"write_result", "results.append"}

\* item k has exactly one record in this run, Skipped/AlreadyMember
OneSkippedRecord(k) ==
  /\ Cardinality(WritesOf(k)) = 1
  /\ \A n \in WritesOf(k) :
       WrittenRow(n).status = "Skipped" /\ WrittenRow(n).reason = Reason("AlreadyMember")

\* C26: in add_patients_to_channel and invite_users_to_channel, when the
\* membership check for item k answers that the user is in the channel, no
\* invite is issued for k, the next step records k as Skipped/AlreadyMember
\* (its one record in the finished run), and the success count and the count
\* held against the daily limit stay the number of invites that succeeded.
C26_MemberSkipped ==
  script \in {"add", "inv"} =>
    /\ \A n \in 1..Len(trace) :
         IsCall(trace[n], "GetParticipantRequest", "participant")
         => /\ \A m \in 1..Len(trace) :
                 trace[m].item = trace[n].item => trace[m].op # "InviteToChannelRequest"
            /\ IF n < Len(trace)
                 THEN /\ IsRecording(trace[n + 1]) /\ trace[n + 1].res = "Skipped"
                      /\ trace[n + 1].item = trace[n].item
                 ELSE /\ pc \in {"log", "record"}
                      /\ loc.status = "Skipped" /\ loc.reason = Reason("AlreadyMember")
            /\ pc = "done" => OneSkippedRecord(trace[n].item)
    /\ ~dry_run => loc.success_count = Cardinality(OkActions)
    /\ (script = "add" /\ ~dry_run) => loc.count = Cardinality(OkActions)

\* a finished run with limit 1 that found item 1 in the channel and then
\* invited item 2
C26_Witness ==
  /\ script = "add" /\ pc = "done" /\ daily_limit = 1
  /\ \E n \in 1..Len(trace) :
       /\ IsCall(trace[n], "GetParticipantRequest", "participant") /\ trace[n].item = 1
       /\ OneSkippedRecord(1)
  /\ \E m \in OkActions : trace[m].item = 2

\* the steps of the loop body in the history: everything but the writes of
\* a batch and the sleep between batches
BodySteps ==
  { n \in 1..Len(trace) : trace[n].item # 0 /\ trace[n].op # "write_result_to_csv" }

\* the loop never goes back to an earlier item, issues the action of an item
\* at most once, and after a FloodWait does not repeat the call for the item
LoopBodyOnce ==
  /\ \A m, n \in BodySteps : m < n => trace[m].item <= trace[n].item
  /\ \A m, n \in 1..Len(trace) :
       ( /\ trace[m].op \in ActionOps /\ trace[m].op = trace[n].op
         /\ trace[m].item = trace[n].item ) => m = n
  /\ \A m, n \in 1..Len(trace) :
       ( /\ trace[m].res = "FloodWaitError" /\ m < n
         /\ trace[n].item = trace[m].item ) => trace[n].op # trace[m].op

\* C28: when every remote call returns or raises and every sleep ends, a run
\* of any of the three scripts ends, its loop body having run at most once
\* per item and no item having been tried again after a FloodWait.
C28_RunTerminates == [](LoopBodyOnce) /\ <>(pc = "exited")

\* a run that ended after a FloodWait on item 1 and a call for item 2
C28_Witness ==
  /\ pc = "exited" /\ ItemCount = MaxItems
  /\ \E m, n \in 1..Len(trace) :
       /\ trace[m].res = "FloodWaitError" /\ trace[m].item = 1
       /\ m < n /\ trace[n].item = 2 /\ trace[n].op \in CallOps
====
